---- MODULE Spec2Model ----
(***************************************************************************)
(* A model of the SQLite-backed storage adapters of                        *)
(* tokenring-ai/sqlite-storage: the chat message store (ChatSession and    *)
(* ChatMessage tables, storeChat, getChatHistoryByMessageId) and the agent *)
(* state store (AgentState table, storeCheckpoint, retrieveCheckpoint,     *)
(* the SQLITE_BUSY retry wrapper), and the command history store           *)
(* (CommandHistory table, add, getPrevious, getAll, clear).                *)
(*                                                                         *)
(* Values are encoded so that TLC never compares values of different       *)
(* shapes: a JavaScript value is a record tagged by its field js, an SQL   *)
(* INTEGER column holds a natural number and SQL NULL is the number 0      *)
(* (AUTOINCREMENT ids start at 1), an SQL TEXT column holds a sequence of  *)
(* JSON tokens and SQL NULL is the empty sequence there.                   *)
(***************************************************************************)
EXTENDS Integers, Sequences, FiniteSets, TLC

VARIABLES
    foreignKeys,   \* whether the connection enforces FOREIGN KEY clauses
    ChatSession,   \* the rows of table ChatSession
    ChatMessage,   \* the rows of table ChatMessage
    frame,         \* per caller: the locals of a storeChat call in progress
    ret,           \* per caller: what the last completed storeChat call gave
    history,       \* the last getChatHistoryByMessageId call and its result
    calls,         \* counters of the storeChat calls made so far
    AgentState,    \* the rows of table AgentState
    maxRetries,    \* SQLiteAgentStateStorage.maxRetries
    retryDelayMs,  \* SQLiteAgentStateStorage.retryDelayMs
    op,            \* the agent state call in progress, inside retryOnBusy
    agentRet,      \* what the last agent state call gave, once it has ended
    stored,        \* the checkpoints stored so far, by the id returned
    CommandHistory,     \* the rows of table CommandHistory
    CommandHistorySeq,  \* the largest id table CommandHistory has given out
    clock,         \* the latest timestamp SQLiteCLIHistoryStorage has stored
    config,        \* SQLiteCLIHistoryStorage.config: limit and blacklist
    ring,          \* per instance: the cached history list and historyIndex
    ringRet,       \* the last SQLiteCLIHistoryStorage call and what it gave
    added,         \* the commands appended since the table was last empty
    currentLine,   \* per instance: HistoryStorage.currentLine, the saved line
    Checkpoint,    \* the rows of table Checkpoint
    checkpointRet, \* the last SQLiteChatCheckpointStorage call and what it gave
    query          \* the last getRecentMessages or searchMessages call, with
                   \* the number of ChatMessage rows it ran on (seen)

chatVars == <<foreignKeys, ChatSession, ChatMessage, frame, ret, history, calls>>

agentVars == <<AgentState, maxRetries, retryDelayMs, op, agentRet, stored>>

ringVars == <<CommandHistory, CommandHistorySeq, clock, config, ring, ringRet, added>>

\* currentLine belongs to the base class: no store of the model sets it.
baseVars == <<currentLine>>

\* The checkpoint store, and the queries that read the chat tables.
queryVars == <<Checkpoint, checkpointRet, query>>

vars == <<chatVars, agentVars, ringVars, baseVars, queryVars>>

\* What the chat stores leave alone, what the agent state store does, and
\* what the command history store does.
notChat == <<agentVars, ringVars, baseVars, queryVars>>
notAgent == <<chatVars, ringVars, baseVars, queryVars>>
notRing == <<chatVars, agentVars, baseVars, queryVars>>
notQuery == <<chatVars, agentVars, ringVars, baseVars>>

-----------------------------------------------------------------------------
(* Bounds of the model.                                                    *)

MaxMessages == 2   \* storeChat calls begun in one behaviour
MaxSessions == 2   \* ChatSession rows inserted in one behaviour
MaxStates == 2     \* AgentState rows inserted in one behaviour
MaxAdds == 3       \* CommandHistory rows inserted in one behaviour
MaxCheckpoints == 3   \* Checkpoint rows inserted in one behaviour

Callers == {"c1", "c2"}   \* the processes that have the database file open
Clock == {0, 1}           \* the readings of the clock, taken in any order

-----------------------------------------------------------------------------
(* JavaScript values.                                                      *)

Undefined == [js |-> "undefined"]
JsNull == [js |-> "null"]
Num(n) == [js |-> "number", n |-> n]
Str(s) == [js |-> "string", s |-> s]
Arr(items) == [js |-> "array", items |-> items]
Obj(fields) == [js |-> "object", fields |-> fields]

NULL == 0

\* The decimal numerals of the ids and times that occur in the model.
Numeral == [n \in 0..9 |-> CASE n = 0 -> "0" [] n = 1 -> "1" [] n = 2 -> "2"
                             [] n = 3 -> "3" [] n = 4 -> "4" [] n = 5 -> "5"
                             [] n = 6 -> "6" [] n = 7 -> "7" [] n = 8 -> "8"
                             [] OTHER -> "9"]

\* Number.prototype.toString of a small non-negative integer.
NumberToString(n) == Str(Numeral[n])

\* Whether a JavaScript string spells a decimal integer.
IsNumeric(v) == v.js = "string" /\ \E n \in 0..9 : Numeral[n] = v.s

\* parseInt of a string that spells a decimal integer.
ParseInt(v) == CHOOSE n \in 0..9 : Numeral[n] = v.s

\* JavaScript truthiness.
Truthy(v) ==
    /\ v.js # "undefined"
    /\ v.js # "null"
    /\ (v.js = "number" => v.n # 0)
    /\ (v.js = "string" => v.s # "")

\* The value SQLite compares or stores in an INTEGER column for a bound
\* parameter: undefined and null bind as NULL, a number is kept, a string
\* that spells an integer is converted by the column's INTEGER affinity, and
\* any other string stays a text, which equals no integer (-1 here).
BindInteger(v) ==
    IF v.js \in {"undefined", "null"} THEN NULL
    ELSE IF v.js = "number" THEN v.n
    ELSE IF IsNumeric(v) THEN ParseInt(v)
    ELSE -1

-----------------------------------------------------------------------------
(* JSON.stringify and JSON.parse.  A JSON text is the sequence of its      *)
(* tokens; the empty sequence stands for "no text" (JSON.stringify of      *)
(* undefined is undefined, which binds as SQL NULL).                       *)

Tok(t) == [t |-> t]
NumTok(n) == [t |-> "num", n |-> n]
StrTok(s) == [t |-> "str", s |-> s]

RECURSIVE Stringify(_), StringifyItems(_, _), StringifyFields(_, _, _)

\* JSON.stringify(v): undefined gives no text; inside an array undefined is
\* written as null; a property whose value is undefined is left out.
Stringify(v) ==
    CASE v.js = "undefined" -> <<>>
      [] v.js = "null" -> <<Tok("null")>>
      [] v.js = "number" -> <<NumTok(v.n)>>
      [] v.js = "string" -> <<StrTok(v.s)>>
      [] v.js = "array" -> <<Tok("[")>> \o StringifyItems(v.items, 1) \o <<Tok("]")>>
      [] OTHER -> <<Tok("{")>> \o StringifyFields(v.fields, 1, TRUE) \o <<Tok("}")>>

StringifyItems(items, i) ==
    IF i > Len(items) THEN <<>>
    ELSE (IF i > 1 THEN <<Tok(",")>> ELSE <<>>)
         \o (IF items[i].js = "undefined" THEN <<Tok("null")>> ELSE Stringify(items[i]))
         \o StringifyItems(items, i + 1)

StringifyFields(fields, i, first) ==
    IF i > Len(fields) THEN <<>>
    ELSE IF fields[i][2].js = "undefined" THEN StringifyFields(fields, i + 1, first)
    ELSE (IF first THEN <<>> ELSE <<Tok(",")>>)
         \o <<StrTok(fields[i][1]), Tok(":")>> \o Stringify(fields[i][2])
         \o StringifyFields(fields, i + 1, FALSE)

RECURSIVE ParseValue(_), ParseItems(_, _), ParseFields(_, _)

\* One JSON value read from the front of toks: the value and the tokens left.
ParseValue(toks) ==
    LET h == Head(toks) IN
    CASE h.t = "null" -> [val |-> JsNull, rest |-> Tail(toks)]
      [] h.t = "num" -> [val |-> Num(h.n), rest |-> Tail(toks)]
      [] h.t = "str" -> [val |-> Str(h.s), rest |-> Tail(toks)]
      [] h.t = "[" -> ParseItems(Tail(toks), <<>>)
      [] OTHER -> ParseFields(Tail(toks), <<>>)

ParseItems(toks, acc) ==
    IF Head(toks).t = "]" THEN [val |-> Arr(acc), rest |-> Tail(toks)]
    ELSE LET body == IF Head(toks).t = "," THEN Tail(toks) ELSE toks
             item == ParseValue(body)
         IN  ParseItems(item.rest, Append(acc, item.val))

ParseFields(toks, acc) ==
    IF Head(toks).t = "}" THEN [val |-> Obj(acc), rest |-> Tail(toks)]
    ELSE LET body == IF Head(toks).t = "," THEN Tail(toks) ELSE toks
             key == Head(body).s
             item == ParseValue(Tail(Tail(body)))
         IN  ParseFields(item.rest, Append(acc, <<key, item.val>>))

\* JSON.parse of a JSON text.
Parse(toks) == ParseValue(toks).val

\* obj[key] of a JavaScript object (undefined when the key is missing).
RECURSIVE GetField(_, _, _)
GetField(fields, key, i) ==
    IF i > Len(fields) THEN Undefined
    ELSE IF fields[i][1] = key THEN fields[i][2]
    ELSE GetField(fields, key, i + 1)

Get(v, key) == IF v.js = "object" THEN GetField(v.fields, key, 1) ELSE Undefined

-----------------------------------------------------------------------------
(* The tables ChatSession and ChatMessage (db/db.sql).                     *)

\* The ids of the rows of a table.
Ids(tbl) == {r.id : r \in tbl}

\* The row of a table with a given id (the id is the primary key).
RowOf(tbl, id) == CHOOSE r \in tbl : r.id = id

\* INTEGER PRIMARY KEY AUTOINCREMENT: one more than the largest id ever
\* used.  No operation of the stores deletes a ChatSession or ChatMessage
\* row, so that is the largest id in the table.
NextId(tbl) == IF tbl = {} THEN 1 ELSE 1 + (CHOOSE i \in Ids(tbl) : \A j \in Ids(tbl) : j <= i)

\* The FOREIGN KEY clauses of ChatMessage, checked when the statement ends:
\* sessionId names a ChatSession row, and previousMessageId is NULL or names
\* a ChatMessage row, which may be the row being inserted.  SQLite checks
\* them only on a connection whose foreign_keys pragma is on: better-sqlite3
\* turns it on, bun:sqlite leaves SQLite's default, and no store sets it.
ForeignKeysHold(row, sessions, messages) ==
    /\ row.sessionId \in Ids(sessions)
    /\ \/ row.previousMessageId = NULL
       \/ row.previousMessageId \in Ids(messages)
       \/ row.previousMessageId = row.id

\* A RETURNING or SELECT list: the row cut down to the columns named.
Columns(row, cols) == [c \in cols |-> row[c]]

AllMessageColumns ==
    {"id", "previousMessageId", "sessionId", "request", "response", "createdAt", "updatedAt"}

\* The RETURNING list of storeChat's INSERT INTO ChatMessage.
StoreChatReturning == {"id", "sessionId", "previousMessageId", "request", "response"}

-----------------------------------------------------------------------------
(* SQLiteChatMessageStorage.                                               *)

\* The requests and responses callers store.
ReqHello ==
    Obj(<< <<"messages",
             Arr(<< Obj(<< <<"role", Str("user")>>,
                           <<"content", Str("Hello world")>> >>) >>)>> >>)
RespHi == Obj(<< <<"role", Str("assistant")>>, <<"content", Str("Hi!")>> >>)
ReqEmpty == Obj(<< <<"messages", Arr(<<>>)>> >>)
Payloads == {<<ReqHello, RespHi>>, <<ReqEmpty, Undefined>>}

\* The currentMessage arguments callers pass: none, or a message object.
\* storeChat reads only its id and sessionId, so the object is given by
\* those two; callers may pass any object, also one no store returned.
PriorArgs ==
    {Undefined} \cup
    {Obj(<< <<"id", NumberToString(i)>>, <<"sessionId", sid>> >>) :
        i \in 1..MaxMessages,
        sid \in {Undefined} \cup {NumberToString(k) : k \in 1..MaxSessions}}

\* The session title: the content of the request's last message cut at
\* the first whitespace after at most 100 characters, or "New Chat".  The
\* contents of the model are one line shorter than 100 characters, which
\* the replace leaves as they are.
Title(request) ==
    LET messages == Get(request, "messages")
        lastMessage == IF messages.js = "array" /\ Len(messages.items) > 0
                       THEN messages.items[Len(messages.items)]
                       ELSE Undefined
        content == Get(lastMessage, "content")
    IN  IF content.js = "string" THEN content.s ELSE "New Chat"

\* INSERT INTO ChatSession (title): the row inserted at clock reading now.
NewSessionRow(sessions, title, now) ==
    [id |-> NextId(sessions), title |-> title, createdAt |-> now]

\* A storeChat that reuses the session of an equal title, if there is one.
InsertSession_ByTitle(sessions, title, now) ==
    IF \E r \in sessions : r.title = title THEN sessions
    ELSE sessions \cup {NewSessionRow(sessions, title, now)}

\* The ChatSession table after storeChat's INSERT INTO ChatSession.
InsertSession(sessions, title, now) ==
    sessions \cup {NewSessionRow(sessions, title, now)}

\* Whether storeChat takes the session of currentMessage.
HasSession(currentMessage) == Truthy(Get(currentMessage, "sessionId"))

\* INSERT INTO ChatMessage (sessionId, previousMessageId, request,
\* response): the row the statement builds at clock reading now.
NewMessageRow(messages, sessionId, currentMessage, request, response, now) ==
    [id |-> NextId(messages),
     sessionId |-> sessionId,
     previousMessageId |-> BindInteger(Get(currentMessage, "id")),
     request |-> Stringify(request),
     response |-> Stringify(response),
     createdAt |-> now,
     updatedAt |-> now]

\* msg[col] of a row object, undefined for a column the row does not have.
Field(msg, col) == IF col \in DOMAIN msg THEN Num(msg[col]) ELSE Undefined

\* formatMessage: the StoredChatMessage made of a row object.
formatMessage(msg) ==
    [id |-> NumberToString(msg.id),
     sessionId |-> NumberToString(msg.sessionId),
     request |-> Parse(msg.request),
     response |-> IF msg.response # <<>> THEN Parse(msg.response) ELSE JsNull,
     previousMessageId |-> IF msg.previousMessageId = NULL THEN Undefined
                           ELSE NumberToString(msg.previousMessageId),
     createdAt |-> Field(msg, "createdAt"),
     updatedAt |-> Field(msg, "updatedAt")]

\* Whether currentMessage names a turn or a session that storage lacks.
Stale(currentMessage, sessions, messages) ==
    /\ currentMessage # Undefined
    /\ \/ BindInteger(Get(currentMessage, "id")) \notin Ids(messages)
       \/ /\ HasSession(currentMessage)
          /\ ParseInt(Get(currentMessage, "sessionId")) \notin Ids(sessions)

Idle == [pc |-> "idle"]
NoReturn == [outcome |-> "none"]

\* storeChat up to and including its INSERT INTO ChatSession.  Several
\* processes may have the database file open, so the two statements of one
\* call are two steps, and other callers' statements can run between them.
StoreChatBegin(c, currentMessage, payload, now) ==
    /\ frame[c].pc = "idle"
    /\ calls.begun < MaxMessages
    /\ IF HasSession(currentMessage)
       THEN /\ frame' = [frame EXCEPT ![c] =
                   [pc |-> "insert", currentMessage |-> currentMessage,
                    request |-> payload[1], response |-> payload[2],
                    sessionId |-> ParseInt(Get(currentMessage, "sessionId")),
                    createdSession |-> NULL,
                    stale |-> Stale(currentMessage, ChatSession, ChatMessage)]]
            /\ calls' = [calls EXCEPT !.begun = @ + 1]
            /\ UNCHANGED ChatSession
       ELSE /\ Cardinality(ChatSession) < MaxSessions
            /\ ChatSession' = InsertSession(ChatSession, Title(payload[1]), now)
            /\ frame' = [frame EXCEPT ![c] =
                   [pc |-> "insert", currentMessage |-> currentMessage,
                    request |-> payload[1], response |-> payload[2],
                    sessionId |-> NewSessionRow(ChatSession, Title(payload[1]), now).id,
                    createdSession |-> NewSessionRow(ChatSession, Title(payload[1]), now).id,
                    stale |-> Stale(currentMessage, ChatSession, ChatMessage)]]
            /\ calls' = [calls EXCEPT !.begun = @ + 1, !.sessionCalls = @ + 1]
    /\ UNCHANGED <<foreignKeys, ChatMessage, ret, history, notChat>>

\* storeChat from its INSERT INTO ChatMessage to its return or throw.
StoreChatInsert(c, now) ==
    /\ frame[c].pc = "insert"
    /\ LET f == frame[c]
           row == NewMessageRow(ChatMessage, f.sessionId, f.currentMessage,
                                f.request, f.response, now)
       IN  IF foreignKeys /\ ~ForeignKeysHold(row, ChatSession, ChatMessage)
           THEN /\ ret' = [ret EXCEPT ![c] =
                       [outcome |-> "error", error |-> "SQLITE_CONSTRAINT_FOREIGNKEY",
                        currentMessage |-> f.currentMessage,
                        createdSession |-> f.createdSession, stale |-> f.stale]]
                /\ UNCHANGED <<ChatMessage, calls>>
           ELSE /\ ChatMessage' = ChatMessage \cup {row}
                /\ ret' = [ret EXCEPT ![c] =
                       [outcome |-> "value",
                        value |-> formatMessage(Columns(row, StoreChatReturning)),
                        rowId |-> row.id,
                        request |-> f.request, response |-> f.response,
                        currentMessage |-> f.currentMessage,
                        createdSession |-> f.createdSession, stale |-> f.stale]]
                /\ calls' = IF f.currentMessage = Undefined
                            THEN [calls EXCEPT !.rootCalls = @ + 1]
                            ELSE calls
    /\ frame' = [frame EXCEPT ![c] = Idle]
    /\ UNCHANGED <<foreignKeys, ChatSession, history, notChat>>

\* (A SELECT that gives the row stored last, whatever the id asked for.)
SelectMessage_Last(messages, id) ==
    {cm \in messages : \A o \in messages : o.id <= cm.id}

\* SELECT * FROM ChatMessage WHERE id = ?
SelectMessage(messages, id) == {cm \in messages : cm.id = BindInteger(id)}

\* retrieveMessageById(id)
retrieveMessageById(id) ==
    /\ LET data == SelectMessage(ChatMessage, id)
       IN  query' =
             IF data = {}
             THEN [op |-> "retrieveMessageById", id |-> id,
                   seen |-> Cardinality(ChatMessage),
                   outcome |-> "error", error |-> "Message with id not found"]
             ELSE [op |-> "retrieveMessageById", id |-> id,
                   seen |-> Cardinality(ChatMessage),
                   outcome |-> "value",
                   value |-> formatMessage(CHOOSE cm \in data : TRUE)]
    /\ UNCHANGED <<Checkpoint, checkpointRet, notQuery>>

\* storeChat when its INSERT INTO ChatMessage meets a locked file: the
\* statement throws SQLITE_BUSY, storeChat has no handler, and the error
\* reaches the caller after the one run.
StoreChatBusy(c) ==
    /\ frame[c].pc = "insert"
    /\ ret' = [ret EXCEPT ![c] =
           [outcome |-> "error", error |-> "SQLITE_BUSY", runs |-> 1,
            currentMessage |-> frame[c].currentMessage,
            createdSession |-> frame[c].createdSession, stale |-> frame[c].stale]]
    /\ frame' = [frame EXCEPT ![c] = Idle]
    /\ UNCHANGED <<foreignKeys, ChatSession, ChatMessage, history, calls, notChat>>

-----------------------------------------------------------------------------
(* SQLiteChatHistoryStorage.getChatHistoryByMessageId.                     *)

\* (MessageHistoryFrom_ByTime is MessageHistoryFrom walking back in time:
\* it joins a parent only if it is not newer than its child.)
\*
\* The recursive member of the common table expression message_history:
\* from the row produced last, the row its previousMessageId names, for as
\* long as there is one.  Rows come out in the order they are produced;
\* UNION ALL keeps every row, so on parent links that loop the query
\* produces rows without end.  A walk that has produced more rows than the
\* table holds has repeated a row and is such a walk: "diverges".
RECURSIVE MessageHistoryFrom_ByTime(_, _, _)
MessageHistoryFrom_ByTime(messages, rows, fuel) ==
    LET last == rows[Len(rows)]
        joined == {cm \in messages : /\ cm.id = last.previousMessageId
                                     /\ cm.createdAt <= last.createdAt}
    IN  IF joined = {} THEN [outcome |-> "rows", rows |-> rows]
        ELSE IF fuel = 0 THEN [outcome |-> "diverges"]
        ELSE MessageHistoryFrom_ByTime(messages, Append(rows, CHOOSE cm \in joined : TRUE),
                                       fuel - 1)

RECURSIVE MessageHistoryFrom(_, _, _)
MessageHistoryFrom(messages, rows, fuel) ==
    LET last == rows[Len(rows)]
        joined == {cm \in messages : cm.id = last.previousMessageId}
    IN  IF joined = {} THEN [outcome |-> "rows", rows |-> rows]
        ELSE IF fuel = 0 THEN [outcome |-> "diverges"]
        ELSE MessageHistoryFrom(messages, Append(rows, CHOOSE cm \in joined : TRUE), fuel - 1)

\* The whole query: the anchor row WHERE id = ?, then the recursive member.
MessageHistory(messages, messageId) ==
    LET anchor == {cm \in messages : cm.id = BindInteger(messageId)}
    IN  IF anchor = {} THEN [outcome |-> "rows", rows |-> <<>>]
        ELSE MessageHistoryFrom(messages, <<CHOOSE cm \in anchor : TRUE>>,
                                Cardinality(messages))

NotAsked == [asked |-> FALSE]

getChatHistoryByMessageId(messageId) ==
    /\ history' = [asked |-> TRUE, messageId |-> messageId, messages |-> ChatMessage,
                   result |-> MessageHistory(ChatMessage, messageId)]
    /\ UNCHANGED <<foreignKeys, ChatSession, ChatMessage, frame, ret, calls, notChat>>

-----------------------------------------------------------------------------
(* Rows in the order of an ORDER BY createdAt.  SQL leaves the order of    *)
(* rows of one createdAt open; SQLite's sorter keeps them in the order the *)
(* table scan gave them, which is by ascending id.                         *)

\* ORDER BY createdAt DESC
RECURSIVE ByCreatedAtDesc(_)
ByCreatedAtDesc(rows) ==
    IF rows = {} THEN <<>>
    ELSE LET first == CHOOSE x \in rows :
                          \A o \in rows : \/ x.createdAt > o.createdAt
                                          \/ x.createdAt = o.createdAt /\ x.id <= o.id
         IN  <<first>> \o ByCreatedAtDesc(rows \ {first})

\* (An ORDER BY createdAt that gives the latest rows first.)
ByCreatedAt_LatestFirst(rows) == ByCreatedAtDesc(rows)

\* ORDER BY createdAt
RECURSIVE ByCreatedAt(_)
ByCreatedAt(rows) ==
    IF rows = {} THEN <<>>
    ELSE LET first == CHOOSE x \in rows :
                          \A o \in rows : \/ x.createdAt < o.createdAt
                                          \/ x.createdAt = o.createdAt /\ x.id <= o.id
         IN  <<first>> \o ByCreatedAt(rows \ {first})

\* LIMIT n of a query result.
Limited(rows, n) == IF Len(rows) <= n THEN rows ELSE SubSeq(rows, 1, n)

\* The latest createdAt of a table, which the next reading of the clock is
\* not below (0 for an empty table).
Latest(rows) ==
    IF rows = {} THEN 0
    ELSE CHOOSE t \in {x.createdAt : x \in rows} : \A x \in rows : x.createdAt <= t

-----------------------------------------------------------------------------
(* SQLiteChatCheckpointStorage.                                            *)

Labels == {"before"}

\* The currentMessage arguments callers pass to createCheckpoint: none, an
\* object without an id, or a message object, given by its id.
CheckpointArgs ==
    {Undefined, Obj(<<>>)} \cup
    {Obj(<< <<"id", NumberToString(i)>> >>) : i \in 1..MaxMessages}

\* INSERT INTO Checkpoint (label, messageId): the row inserted at clock
\* reading now.  The table has no foreign key on messageId.
NewCheckpointRow(rows, label, currentMessage, now) ==
    [id |-> NextId(rows), label |-> label,
     messageId |-> BindInteger(Get(currentMessage, "id")), createdAt |-> now]

\* createCheckpoint(label, currentMessage)
createCheckpoint(label, currentMessage, now) ==
    /\ Cardinality(Checkpoint) < MaxCheckpoints
    /\ IF ~Truthy(currentMessage) \/ ~Truthy(Get(currentMessage, "id"))
       THEN /\ checkpointRet' =
                   [op |-> "createCheckpoint", currentMessage |-> currentMessage,
                    outcome |-> "error",
                    error |-> "Invalid currentMessage provided for checkpoint creation"]
            /\ UNCHANGED Checkpoint
       ELSE LET row == NewCheckpointRow(Checkpoint, label, currentMessage, now)
            IN  /\ Checkpoint' = Checkpoint \cup {row}
                /\ checkpointRet' =
                       [op |-> "createCheckpoint", currentMessage |-> currentMessage,
                        outcome |-> "value", value |-> row]
    /\ UNCHANGED <<query, notQuery>>

\* SELECT * FROM Checkpoint ORDER BY createdAt DESC LIMIT 1 OFFSET idx: the
\* row at place idx + 1 of the ordered rows, or none (get gives undefined).
CheckpointAt(rows, idx) ==
    LET ordered == ByCreatedAtDesc(rows)
    IN  IF idx + 1 <= Len(ordered) THEN [found |-> TRUE, row |-> ordered[idx + 1]]
        ELSE [found |-> FALSE]

\* retrieveCheckpoint(idx)
retrieveCheckpoint(idx) ==
    /\ checkpointRet' = [op |-> "retrieveCheckpoint", idx |-> idx, outcome |-> "value",
                         value |-> CheckpointAt(Checkpoint, idx)]
    /\ UNCHANGED <<Checkpoint, query, notQuery>>

-----------------------------------------------------------------------------
(* SQLiteChatHistoryStorage.getRecentMessages and searchMessages.          *)

\* The limit of getRecentMessages when the caller gives none, and the
\* LIMIT written into the statement of searchMessages.
DefaultRecentLimit == 10
SearchLimit == 20

\* The characters of the strings that occur in the stored payloads.
Chars(str) ==
    CASE str = "Hello world" -> <<"H", "e", "l", "l", "o", " ", "w", "o", "r", "l", "d">>
      [] str = "Hi!" -> <<"H", "i", "!">>
      [] str = "user" -> <<"u", "s", "e", "r">>
      [] str = "assistant" -> <<"a", "s", "s", "i", "s", "t", "a", "n", "t">>
      [] str = "messages" -> <<"m", "e", "s", "s", "a", "g", "e", "s">>
      [] str = "role" -> <<"r", "o", "l", "e">>
      [] str = "content" -> <<"c", "o", "n", "t", "e", "n", "t">>
      [] OTHER -> <<"?">>

\* The characters of a JSON text, as the TEXT column stores it.
RECURSIVE TextOf(_)
TextOf(toks) ==
    IF toks = <<>> THEN <<>>
    ELSE LET h == Head(toks)
         IN  (CASE h.t = "str" -> <<"\"">> \o Chars(h.s) \o <<"\"">>
                [] h.t = "num" -> <<Numeral[h.n]>>
                [] h.t = "null" -> <<"n", "u", "l", "l">>
                [] OTHER -> <<h.t>>)
             \o TextOf(Tail(toks))

\* The letters LIKE folds: it ignores case for the ASCII letters only.
UpperCase == <<"A", "B", "C", "D", "E", "F", "G", "H", "I", "J", "K", "L", "M",
               "N", "O", "P", "Q", "R", "S", "T", "U", "V", "W", "X", "Y", "Z">>
LowerCase == <<"a", "b", "c", "d", "e", "f", "g", "h", "i", "j", "k", "l", "m",
               "n", "o", "p", "q", "r", "s", "t", "u", "v", "w", "x", "y", "z">>
Punctuation == {" ", "!", "?", "\"", "{", "}", "[", "]", ":", ","}
Alphabet ==
    {UpperCase[i] : i \in 1..26} \cup {LowerCase[i] : i \in 1..26}
        \cup {Numeral[n] : n \in 0..9} \cup Punctuation
Fold ==
    [ch \in Alphabet |->
        IF \E i \in 1..26 : UpperCase[i] = ch
        THEN LowerCase[CHOOSE i \in 1..26 : UpperCase[i] = ch]
        ELSE ch]

\* text LIKE '%keyword%' for a keyword without the wildcards % and _ (the
\* keywords of the model have none); a NULL text matches nothing.
Like(text, keyword) ==
    LET folded == [i \in 1..Len(text) |-> Fold[text[i]]]
        word == [j \in 1..Len(keyword) |-> Fold[keyword[j]]]
    IN  /\ text # <<>>
        /\ \E start \in 0..(Len(text) - Len(keyword)) :
              \A j \in 1..Len(keyword) : folded[start + j] = word[j]

\* The keywords callers search for, as their characters.
Keywords == {<<>>, <<" ">>, <<"h", "e", "l", "l", "o">>, <<"H", "I">>}

\* getRecentMessages(sessionId, limit), limit undefined when not given.
RecentMessages(messages, sessionId, limit) ==
    Limited(ByCreatedAt({cm \in messages : cm.sessionId = BindInteger(sessionId)}),
            IF limit.js = "undefined" THEN DefaultRecentLimit ELSE limit.n)

getRecentMessages(sessionId, limit) ==
    /\ query' = [op |-> "getRecentMessages", sessionId |-> sessionId, limit |-> limit,
                 seen |-> Cardinality(ChatMessage),
                 result |-> RecentMessages(ChatMessage, sessionId, limit)]
    /\ UNCHANGED <<Checkpoint, checkpointRet, notQuery>>

\* listSessions(): SELECT id, title, createdAt FROM ChatSession ORDER BY
\* createdAt DESC.
listSessions ==
    /\ query' = [op |-> "listSessions", seen |-> Cardinality(ChatMessage),
                 result |-> ByCreatedAtDesc(ChatSession)]
    /\ UNCHANGED <<Checkpoint, checkpointRet, notQuery>>

\* getThreadTree(sessionId): the turns of the session, ORDER BY createdAt.
getThreadTree(sessionId) ==
    /\ query' = [op |-> "getThreadTree", sessionId |-> sessionId,
                 seen |-> Cardinality(ChatMessage),
                 result |-> ByCreatedAt({cm \in ChatMessage :
                                           cm.sessionId = BindInteger(sessionId)})]
    /\ UNCHANGED <<Checkpoint, checkpointRet, notQuery>>

\* searchMessages(keyword, _sessionId): the second parameter is not used,
\* whatever the caller passes for it.
SearchMessages(messages, keyword) ==
    IF keyword = <<>> THEN <<>>
    ELSE Limited(ByCreatedAtDesc({cm \in messages :
                                     \/ Like(TextOf(cm.request), keyword)
                                     \/ Like(TextOf(cm.response), keyword)}),
                 SearchLimit)

searchMessages(keyword, second) ==
    /\ query' = [op |-> "searchMessages", keyword |-> keyword, limit |-> second,
                 seen |-> Cardinality(ChatMessage),
                 result |-> SearchMessages(ChatMessage, keyword)]
    /\ UNCHANGED <<Checkpoint, checkpointRet, notQuery>>

-----------------------------------------------------------------------------
(* SQLiteAgentStateStorage.                                                *)

DefaultMaxRetries == 3
DefaultRetryDelayMs == 100

\* The maxRetries and retryDelayMs values the store is configured with.
RetryOptions == {0, 1, DefaultMaxRetries}
RetryDelayOptions == {DefaultRetryDelayMs, 250}

\* What one run of a statement meets: nothing, a locked file, another error.
Faults == {"none", "SQLITE_BUSY", "SQLITE_IOERR"}

\* The agents, checkpoint names and states callers store.  The last state
\* is not JSON-serializable as it stands: it holds undefined.
AgentIds == {Str("my-agent"), Str("1")}
Names == {Str("initial")}
StateStep == Obj(<< <<"step", Num(0)>> >>)
StateSession ==
    Obj(<< <<"messages", Arr(<<Str("Hello")>>)>>,
           <<"variables", Obj(<< <<"count", Num(1)>> >>)>> >>)
StateSparse == Arr(<<Str("Hello"), Undefined>>)
States == {StateStep, StateSession, StateSparse}

\* Whether JSON can carry a value as it stands: it holds no undefined.
RECURSIVE Serializable(_)
Serializable(v) ==
    CASE v.js = "undefined" -> FALSE
      [] v.js = "array" -> \A i \in 1..Len(v.items) : Serializable(v.items[i])
      [] v.js = "object" -> \A i \in 1..Len(v.fields) : Serializable(v.fields[i][2])
      [] OTHER -> TRUE

\* INSERT OR REPLACE INTO AgentState (agentId, name, state, createdAt): the
\* row the statement builds.  The table's only key is the id the statement
\* leaves to AUTOINCREMENT, so no row conflicts and none is replaced.
NewAgentStateRow(rows, checkpoint) ==
    [id |-> NextId(rows),
     agentId |-> checkpoint.agentId.s,
     name |-> checkpoint.name.s,
     state |-> Stringify(checkpoint.state),
     createdAt |-> checkpoint.createdAt]

\* A query that reads the newest row, whatever the parameter.
SelectAgentState_Latest(rows, param) ==
    {Columns(r, {"id", "agentId", "name", "state"}) :
        r \in {x \in rows : x.id + 1 = NextId(rows)}}

\* SELECT id, agentId, name, state FROM AgentState WHERE id = ?
SelectAgentState(rows, param) ==
    {Columns(r, {"id", "agentId", "name", "state"}) :
        r \in {x \in rows : x.id = BindInteger(param)}}

\* The StoredAgentCheckpoint retrieveCheckpoint makes of the row it read.
StoredCheckpoint(row, agentId) ==
    [id |-> NumberToString(row.id),
     name |-> Str(row.name),
     agentId |-> agentId,
     state |-> Parse(row.state),
     createdAt |-> Field(row, "createdAt")]

\* The value retrieveCheckpoint(agentId) returns when its query succeeds.
RetrieveResult(rows, agentId) ==
    LET found == SelectAgentState(rows, agentId)
    IN  IF found = {} THEN JsNull
        ELSE StoredCheckpoint(CHOOSE r \in found : TRUE, agentId)

NoCall == [pc |-> "idle"]

\* retryOnBusy's test to go on after the operation threw error in the turn
\* with loop index i.  The next three are the tests of wrappers that go on
\* after the last turn too, after any error, and after none.
ShouldRetry_Unbounded(error, i) == error = "SQLITE_BUSY"

ShouldRetry_AnyError(error, i) == i < maxRetries - 1

ShouldRetry_Never(error, i) == FALSE

ShouldRetry(error, i) == error = "SQLITE_BUSY" /\ i < maxRetries - 1

\* The time retryOnBusy sleeps before the turn after the one with loop
\* index i.  (RetryDelay_Fixed is the delay of a wrapper without backoff.)
RetryDelay_Fixed(i) == retryDelayMs

RetryDelay(i) == retryDelayMs * (i + 1)

\* storeCheckpoint(checkpoint) and retrieveCheckpoint(agentId) up to their
\* call of retryOnBusy.
AgentCall(kind, arg) ==
    /\ op.pc = "idle"
    /\ kind = "store" => Cardinality(AgentState) < MaxStates
    /\ op' = [pc |-> "loop", kind |-> kind, arg |-> arg, i |-> 0,
              attempts |-> 0, slept |-> 0, faults |-> <<>>, sleeps |-> <<>>,
              rows |-> AgentState]
    /\ agentRet' = NoReturn
    /\ UNCHANGED <<AgentState, maxRetries, retryDelayMs, stored, notAgent>>

\* What the call gives its caller, with what retryOnBusy did on the way:
\* how often it ran the operation, what each run met, how long it slept
\* after each run it slept after, and the table the call began on.
Finished(outcome, value, faults) ==
    [kind |-> op.kind, arg |-> op.arg, outcome |-> outcome, value |-> value,
     attempts |-> Len(faults), slept |-> op.slept,
     faults |-> faults, sleeps |-> op.sleeps, rows |-> op.rows]

\* One turn of retryOnBusy's loop, the statement meeting fault, and what
\* follows it in the caller when the loop returns or throws.  The loop
\* awaits a timer between two turns, so other work runs in between.
RetryOnBusyTurn(fault) ==
    /\ op.pc = "loop"
    /\ IF ~(op.i < maxRetries)
       THEN /\ agentRet' = Finished("error", "Max retries reached", op.faults)
            /\ op' = NoCall
            /\ UNCHANGED <<AgentState, stored>>
       ELSE IF fault = "none"
       THEN IF op.kind = "store"
            THEN LET row == NewAgentStateRow(AgentState, op.arg)
                 IN  /\ AgentState' = AgentState \cup {row}
                     /\ agentRet' = Finished("value", NumberToString(row.id),
                                             Append(op.faults, fault))
                     /\ stored' = stored \cup {[id |-> NumberToString(row.id),
                                                checkpoint |-> op.arg]}
                     /\ op' = NoCall
            ELSE /\ agentRet' = Finished("value", RetrieveResult(AgentState, op.arg),
                                         Append(op.faults, fault))
                 /\ op' = NoCall
                 /\ UNCHANGED <<AgentState, stored>>
       ELSE IF ShouldRetry(fault, op.i)
       THEN /\ op' = [op EXCEPT !.i = @ + 1, !.attempts = @ + 1,
                                !.slept = @ + RetryDelay(op.i),
                                !.faults = Append(@, fault),
                                !.sleeps = Append(@, RetryDelay(op.i))]
            /\ UNCHANGED <<AgentState, agentRet, stored>>
       ELSE /\ agentRet' = Finished("error", fault, Append(op.faults, fault))
            /\ op' = NoCall
            /\ UNCHANGED <<AgentState, stored>>
    /\ UNCHANGED <<maxRetries, retryDelayMs, notAgent>>

-----------------------------------------------------------------------------
(* SQLiteCLIHistoryStorage.  A command is the sequence of its characters.  *)

Rings == {"r1"}   \* the instances that have the database open

Ls == <<"l", "s">>
Cd == <<"c", "d">>
Rm == <<"r", "m">>
Commands == {<<>>, <<" ">>, Ls, Cd, Rm}

\* The commands the user of the front end types.
Typed == {<<" ">>, Ls, Cd}

\* The lines callers are editing when they move through the history, and
\* the lines the base class has saved.
Draft == <<"d", "r">>
Lines == {<<>>, Draft}

\* The limit the constructor sets when the configuration gives none, and
\* the one add uses when the configured limit is falsy.
DefaultLimit == 200

\* The configurations of the model: a limit, and a blacklist or none (an
\* absent blacklist is the empty one: it includes no command).
Limits == {1, 2}
Blacklists == {<<>>, <<Rm>>}
Configs == [limit : Limits, blacklist : Blacklists]

\* this.config.limit || 200
Limit(cfg) == IF cfg.limit = 0 THEN DefaultLimit ELSE cfg.limit

\* String.prototype.trim, and a trim that strips nothing.
Trim_None(command) == command

RECURSIVE Trim(_)
Trim(command) ==
    IF command = <<>> THEN command
    ELSE IF Head(command) = " " THEN Trim(Tail(command))
    ELSE IF command[Len(command)] = " " THEN Trim(SubSeq(command, 1, Len(command) - 1))
    ELSE command

\* Array.prototype.includes
Includes(list, item) == \E i \in 1..Len(list) : list[i] = item

\* add's test for a repeat of the most recent command, and a test for a
\* repeat of any command of the list.
IsRepeat_Anywhere(list, command) == Includes(list, command)

IsRepeat(list, command) == Len(list) > 0 /\ list[Len(list)] = command

\* Array.prototype.slice(-n): the last n items, all of them if fewer.
SliceLast(list, n) ==
    IF Len(list) <= n THEN list ELSE SubSeq(list, Len(list) - n + 1, Len(list))

\* SELECT ... FROM CommandHistory ORDER BY timestamp DESC: the rows with
\* the latest timestamp first.  SQL leaves the order of rows of one
\* timestamp open; SQLite's sorter keeps them in the order the table scan
\* gave them, which is by ascending id.
RECURSIVE ByTimestampDesc(_)
ByTimestampDesc(rows) ==
    IF rows = {} THEN <<>>
    ELSE LET first == CHOOSE x \in rows :
                          \A o \in rows : \/ x.timestamp > o.timestamp
                                          \/ x.timestamp = o.timestamp /\ x.id <= o.id
         IN  <<first>> \o ByTimestampDesc(rows \ {first})

\* LIMIT n: the first n rows of a result, all of them if fewer.
LimitTo(rows, n) == IF Len(rows) <= n THEN rows ELSE SubSeq(rows, 1, n)

\* Array.prototype.reverse
Reverse(list) == [i \in 1..Len(list) |-> list[Len(list) + 1 - i]]

\* The rows a DELETE ... WHERE id NOT IN (SELECT id FROM CommandHistory
\* ORDER BY timestamp DESC LIMIT n) keeps: the first n the subquery gives.
Kept(rows, n) ==
    LET first == LimitTo(ByTimestampDesc(rows), n)
    IN  {{first[i] : i \in 1..Len(first)}}

\* Where a call's statements fail: nowhere, or at one statement with an
\* error code.
RingFaults ==
    {[at |-> "none", error |-> "none"]} \cup
    [at : {"insert", "delete"}, error : {"SQLITE_BUSY", "SQLITE_IOERR"}]

NoRingCall == [op |-> "none"]

\* What a call of instance r gave: the value returned, the error its catch
\* block logged, and how often each statement was run.
RingReturn(r, name, command, value, logged, runs) ==
    [op |-> name, ring |-> r, command |-> command, value |-> value,
     logged |-> logged, runs |-> runs]

Absent == [found |-> FALSE]
Found(command) == [found |-> TRUE, command |-> command]

\* add(command), the clock moving on by tick before Date.now() reads it.
add(r, command, tick, fault) ==
    LET list == ring[r].history
        now == clock + tick
        row == [id |-> CommandHistorySeq + 1, command |-> command, timestamp |-> now]
        pushed == Append(list, command)
    IN
    IF \/ Trim(command) = <<>>
       \/ Includes(config.blacklist, command)
       \/ IsRepeat(list, command)
    THEN /\ ringRet' = RingReturn(r, "add", command, Absent, "none", 0)
         /\ UNCHANGED <<CommandHistory, CommandHistorySeq, clock, config, ring, added,
                        notRing>>
    ELSE /\ CommandHistorySeq < MaxAdds
         /\ IF fault.at = "insert"
            THEN /\ ringRet' = RingReturn(r, "add", command, Absent, fault.error, 1)
                 /\ UNCHANGED <<CommandHistory, CommandHistorySeq, clock, ring, added>>
            ELSE /\ CommandHistorySeq' = row.id
                 /\ clock' = now
                 /\ added' = Append(added, command)
                 /\ IF Len(pushed) > Limit(config)
                    THEN IF fault.at = "delete"
                         THEN /\ CommandHistory' = CommandHistory \cup {row}
                              /\ ring' = [ring EXCEPT ![r].history = pushed]
                              /\ ringRet' = RingReturn(r, "add", command, Absent,
                                                       fault.error, 1)
                         ELSE /\ CommandHistory' \in Kept(CommandHistory \cup {row},
                                                          Limit(config))
                              /\ ring' = [ring EXCEPT ![r] =
                                     [history |-> SliceLast(pushed, Limit(config)),
                                      historyIndex |-> Len(SliceLast(pushed, Limit(config)))]]
                              /\ ringRet' = RingReturn(r, "add", command, Absent, "none", 1)
                    ELSE /\ CommandHistory' = CommandHistory \cup {row}
                         /\ ring' = [ring EXCEPT ![r] =
                                [history |-> pushed, historyIndex |-> Len(pushed)]]
                         /\ ringRet' = RingReturn(r, "add", command, Absent, "none", 1)
         /\ UNCHANGED <<config, notRing>>

\* getPrevious's test for an entry before the cursor, and one that stops
\* an entry early.
CanGoBack_Late(historyIndex) == historyIndex > 1

CanGoBack(historyIndex) == historyIndex > 0

\* getPrevious(): historyIndex counts from 0, sequences from 1.
getPrevious(r) ==
    /\ IF CanGoBack(ring[r].historyIndex)
       THEN /\ ring' = [ring EXCEPT ![r].historyIndex = @ - 1]
            /\ ringRet' = RingReturn(r, "getPrevious", <<>>,
                                     Found(ring[r].history[ring[r].historyIndex]),
                                     "none", 0)
       ELSE /\ ringRet' = RingReturn(r, "getPrevious", <<>>, Absent, "none", 0)
            /\ UNCHANGED ring
    /\ UNCHANGED <<CommandHistory, CommandHistorySeq, clock, config, added, notRing>>

\* getAll(): a copy of the cached list.
getAll(r) == ring[r].history

\* getNext(): the method takes no parameter, so an argument line a caller
\* passes is dropped; at the last entry it returns the saved current line.
getNext(r, line) ==
    LET list == ring[r].history
        historyIndex == ring[r].historyIndex
    IN
    /\ IF historyIndex < Len(list) - 1
       THEN /\ ring' = [ring EXCEPT ![r].historyIndex = @ + 1]
            /\ ringRet' = RingReturn(r, "getNext", line, Found(list[historyIndex + 2]),
                                     "none", 0)
       ELSE IF historyIndex = Len(list) - 1
       THEN /\ ring' = [ring EXCEPT ![r].historyIndex = @ + 1]
            /\ ringRet' = RingReturn(r, "getNext", line, Found(currentLine[r]), "none", 0)
       ELSE /\ ringRet' = RingReturn(r, "getNext", line, Absent, "none", 0)
            /\ UNCHANGED ring
    /\ UNCHANGED <<CommandHistory, CommandHistorySeq, clock, config, added, notRing>>

\* The instance's list and cursor once clear has run, and those of a clear
\* that empties the list only.
AfterClear_ListOnly(state) == [history |-> <<>>, historyIndex |-> state.historyIndex]

AfterClear(state) == [history |-> <<>>, historyIndex |-> 0]

\* Where load's statement fails: nowhere, or at its SELECT.
LoadFaults ==
    {[at |-> "none", error |-> "none"]} \cup
    [at : {"select"}, error : {"SQLITE_BUSY", "SQLITE_IOERR"}]

\* load(), which init() calls: the newest config.limit rows, reversed.
load(r, fault) ==
    /\ IF fault.at = "select"
       THEN /\ ring' = [ring EXCEPT ![r] = [history |-> <<>>, historyIndex |-> 0]]
            /\ ringRet' = RingReturn(r, "load", <<>>, Absent, fault.error, 1)
       ELSE LET rows == LimitTo(ByTimestampDesc(CommandHistory), config.limit)
                list == Reverse([i \in 1..Len(rows) |-> rows[i].command])
            IN  /\ ring' = [ring EXCEPT ![r] =
                       [history |-> list, historyIndex |-> Len(list)]]
                /\ ringRet' = RingReturn(r, "load", <<>>, Absent, "none", 1)
    /\ UNCHANGED <<CommandHistory, CommandHistorySeq, clock, config, added, notRing>>

\* new SQLiteCLIHistoryStorage({db, config}) over the same file, taking the
\* place of instance r: the new instance starts with an empty list and has
\* loaded nothing until init() is called.
construct(r) ==
    /\ ring' = [ring EXCEPT ![r] = [history |-> <<>>, historyIndex |-> 0]]
    /\ ringRet' = RingReturn(r, "construct", <<>>, Absent, "none", 0)
    /\ UNCHANGED <<CommandHistory, CommandHistorySeq, clock, config, added, notRing>>

\* clear(), its DELETE statement failing or not.
clear(r, fault) ==
    /\ IF fault.at = "delete"
       THEN /\ ringRet' = RingReturn(r, "clear", <<>>, Absent, fault.error, 1)
            /\ UNCHANGED <<CommandHistory, ring, added>>
       ELSE /\ CommandHistory' = {}
            /\ ring' = [ring EXCEPT ![r] = AfterClear(ring[r])]
            /\ added' = <<>>
            /\ ringRet' = RingReturn(r, "clear", <<>>, Absent, "none", 1)
    /\ UNCHANGED <<CommandHistorySeq, clock, config, notRing>>

-----------------------------------------------------------------------------
(* The chat stores on one database file.                                   *)

ChatEmpty ==
    /\ ChatSession = {}
    /\ ChatMessage = {}
    /\ frame = [c \in Callers |-> Idle]
    /\ ret = [c \in Callers |-> NoReturn]
    /\ history = NotAsked
    /\ calls = [begun |-> 0, sessionCalls |-> 0, rootCalls |-> 0]
    /\ Checkpoint = {}
    /\ checkpointRet = [op |-> "none"]
    /\ query = [op |-> "none"]

AgentEmpty ==
    /\ AgentState = {}
    /\ op = NoCall
    /\ agentRet = NoReturn
    /\ stored = {}

\* An empty CommandHistory table, and instances that have loaded it.
RingEmpty ==
    /\ CommandHistory = {}
    /\ CommandHistorySeq = 0
    /\ clock = 0
    /\ ring = [r \in Rings |-> [history |-> <<>>, historyIndex |-> 0]]
    /\ ringRet = NoRingCall
    /\ added = <<>>

\* The chat stores on a fresh database, on either kind of connection.
InitChat ==
    /\ foreignKeys \in BOOLEAN
    /\ ChatEmpty
    /\ maxRetries = DefaultMaxRetries
    /\ retryDelayMs = DefaultRetryDelayMs
    /\ AgentEmpty
    /\ config = [limit |-> DefaultLimit, blacklist |-> <<>>]
    /\ RingEmpty
    /\ currentLine = [r \in Rings |-> <<>>]

\* The agent state store on a fresh database, under any configuration.
InitAgent ==
    /\ foreignKeys = FALSE
    /\ ChatEmpty
    /\ maxRetries \in RetryOptions
    /\ retryDelayMs \in RetryDelayOptions
    /\ AgentEmpty
    /\ config = [limit |-> DefaultLimit, blacklist |-> <<>>]
    /\ RingEmpty
    /\ currentLine = [r \in Rings |-> <<>>]

\* The command history store on a fresh database, under any configuration.
InitRing ==
    /\ foreignKeys = FALSE
    /\ ChatEmpty
    /\ maxRetries = DefaultMaxRetries
    /\ retryDelayMs = DefaultRetryDelayMs
    /\ AgentEmpty
    /\ config \in Configs
    /\ RingEmpty
    /\ currentLine = [r \in Rings |-> <<>>]

\* The command history store behind a front end that moves through the
\* history: any configuration, and any line saved by the base class.
InitNavigate ==
    /\ foreignKeys = FALSE
    /\ ChatEmpty
    /\ maxRetries = DefaultMaxRetries
    /\ retryDelayMs = DefaultRetryDelayMs
    /\ AgentEmpty
    /\ config \in Configs
    /\ RingEmpty
    /\ currentLine \in [Rings -> Lines]

\* Concurrent callers of storeChat.
NextChat ==
    \/ \E c \in Callers, currentMessage \in PriorArgs :
          StoreChatBegin(c, currentMessage, <<ReqHello, RespHi>>, 0)
    \/ \E c \in Callers, now \in Clock : StoreChatInsert(c, now)

SpecChat == InitChat /\ [][NextChat]_vars

\* One caller that stores turns and reconstructs histories.
NextHistory ==
    \/ \E currentMessage \in PriorArgs :
          StoreChatBegin("c1", currentMessage, <<ReqHello, RespHi>>, 0)
    \/ \E now \in Clock : StoreChatInsert("c1", now)
    \/ \E i \in 1..MaxMessages : getChatHistoryByMessageId(NumberToString(i))

SpecHistory == InitChat /\ [][NextHistory]_vars

\* One caller of storeChat on a file that another writer may hold locked.
NextBusy ==
    \/ \E currentMessage \in PriorArgs :
          StoreChatBegin("c1", currentMessage, <<ReqHello, RespHi>>, 0)
    \/ \E now \in Clock : StoreChatInsert("c1", now)
    \/ StoreChatBusy("c1")

SpecBusy == InitChat /\ [][NextBusy]_vars

\* One caller that stores turns and reads them back by id.
NextMessages ==
    \/ \E currentMessage \in PriorArgs, payload \in Payloads :
          StoreChatBegin("c1", currentMessage, payload, 0)
    \/ \E now \in Clock : StoreChatInsert("c1", now)
    \/ \E i \in 1..MaxMessages : retrieveMessageById(NumberToString(i))

SpecMessages == InitChat /\ [][NextMessages]_vars

\* One caller that stores root turns and creates and retrieves
\* checkpoints; the clock (whole seconds) does not run backwards.
NextCheckpoint ==
    \/ StoreChatBegin("c1", Undefined, <<ReqHello, RespHi>>, 0)
    \/ StoreChatInsert("c1", 0)
    \/ \E label \in Labels, currentMessage \in CheckpointArgs, now \in Clock :
          /\ now >= Latest(Checkpoint)
          /\ createCheckpoint(label, currentMessage, now)
    \/ \E idx \in 0..MaxCheckpoints : retrieveCheckpoint(idx)

SpecCheckpoint == InitChat /\ [][NextCheckpoint]_vars

\* The limits callers pass to the queries: none, or a number.
LimitArgs == {Undefined, Num(1), Num(2)}

\* The turns stored before the queries open a session or continue the
\* first turn of the first session.
QueryPriors ==
    {Undefined, Obj(<< <<"id", NumberToString(1)>>, <<"sessionId", NumberToString(1)>> >>)}

\* One caller that stores turns and queries them; the clock (whole
\* seconds) does not run backwards.
NextQueries ==
    \/ \E currentMessage \in QueryPriors, payload \in Payloads :
          StoreChatBegin("c1", currentMessage, payload, 0)
    \/ \E now \in Clock :
          /\ now >= Latest(ChatMessage)
          /\ StoreChatInsert("c1", now)
    \/ \E i \in 1..MaxSessions, limit \in LimitArgs :
          getRecentMessages(NumberToString(i), limit)
    \/ \E keyword \in Keywords, limit \in {Undefined, Num(1)} :
          searchMessages(keyword, limit)
    \/ listSessions
    \/ \E i \in 1..MaxSessions : getThreadTree(NumberToString(i))

SpecQueries == InitChat /\ [][NextQueries]_vars

\* The checkpoints callers store: any agent, name, state and createdAt.
Checkpoints ==
    [agentId : AgentIds, name : Names, state : States, createdAt : Clock]

\* The arguments callers pass to retrieveCheckpoint: an agent id, or an id
\* that storeCheckpoint returns.
RetrieveArgs == AgentIds \cup {NumberToString(i) : i \in 1..MaxStates}

\* One caller of the agent state store, on a file that may be locked.
NextAgent ==
    \/ \E checkpoint \in Checkpoints : AgentCall("store", checkpoint)
    \/ \E agentId \in RetrieveArgs : AgentCall("retrieve", agentId)
    \/ \E fault \in Faults : RetryOnBusyTurn(fault)

SpecAgent == InitAgent /\ [][NextAgent]_vars

\* One instance of the command history store, on a file that may be locked
\* or fail.
NextRing ==
    \/ \E r \in Rings, command \in Commands, tick \in {0, 1}, fault \in RingFaults :
          add(r, command, tick, fault)
    \/ \E r \in Rings : getPrevious(r)
    \/ \E r \in Rings, fault \in RingFaults : clear(r, fault)

SpecRing == InitRing /\ [][NextRing]_vars

\* A front end that adds commands, moves through the history, clears it,
\* and is restarted (a new instance loads the table); the file may be
\* locked or fail when the table is read or cleared.
NextNavigate ==
    \/ \E r \in Rings, command \in Typed, tick \in {0, 1} :
          add(r, command, tick, [at |-> "none", error |-> "none"])
    \/ \E r \in Rings : getPrevious(r)
    \/ \E r \in Rings, line \in Lines : getNext(r, line)
    \/ \E r \in Rings, fault \in LoadFaults : load(r, fault)
    \/ \E r \in Rings, fault \in {f \in RingFaults : f.at # "insert"} : clear(r, fault)

SpecNavigate == InitNavigate /\ [][NextNavigate]_vars

\* A front end on a file that may be locked or fail at any statement: of
\* add, of load and of clear.
NextCursor ==
    \/ \E r \in Rings, command \in {Ls, Cd}, fault \in RingFaults : add(r, command, 1, fault)
    \/ \E r \in Rings : getPrevious(r)
    \/ \E r \in Rings : getNext(r, <<>>)
    \/ \E r \in Rings, fault \in LoadFaults : load(r, fault)
    \/ \E r \in Rings, fault \in RingFaults : clear(r, fault)

SpecCursor == InitRing /\ [][NextCursor]_vars

\* Instances that follow one another on one file that never fails: each
\* adds commands, and a new one may or may not load the table first.
NextShared ==
    \/ \E r \in Rings, command \in {Ls, Cd}, tick \in {0, 1} :
          add(r, command, tick, [at |-> "none", error |-> "none"])
    \/ \E r \in Rings : construct(r)
    \/ \E r \in Rings : load(r, [at |-> "none", error |-> "none"])

SpecShared == InitRing /\ [][NextShared]_vars

-----------------------------------------------------------------------------
(* Parent links, read off the table alone.                                 *)

\* The stored turns the turns of S name as their parents.
ParentsOf(messages, S) ==
    {RowOf(messages, i).previousMessageId : i \in S} \cap Ids(messages)

\* S and every stored turn reachable from S over previousMessageId.
RECURSIVE Reachable(_, _)
Reachable(messages, S) ==
    LET T == S \cup ParentsOf(messages, S)
    IN  IF T = S THEN S ELSE Reachable(messages, T)

\* Whether turn i is its own ancestor.
OnCycle(messages, i) == i \in Reachable(messages, ParentsOf(messages, {i}))

\* Whether following the links from turn id runs into a cycle.
CycleReachable(messages, id) ==
    \E i \in Reachable(messages, {id}) : OnCycle(messages, i)

\* Whether following the links from turn id ends at a root.
EndsAtRoot(messages, id) ==
    \E i \in Reachable(messages, {id}) : RowOf(messages, i).previousMessageId = NULL

\* Whether every parent link names a turn stored before the turn that
\* carries it: the store is a forest built by appending to stored turns.
BuiltByAppending(messages) ==
    \A m \in messages :
        \/ m.previousMessageId = NULL
        \/ m.previousMessageId \in Ids(messages) /\ m.previousMessageId < m.id

\* The turn asked for by the last getChatHistoryByMessageId call.
Target == BindInteger(history.messageId)
TargetKnown == Target \in Ids(history.messages)

\* The ids of a sequence of rows, in order.
IdsInOrder(rows) == [i \in 1..Len(rows) |-> rows[i].id]

-----------------------------------------------------------------------------
(* Claims about getChatHistoryByMessageId, under SpecHistory.              *)

\* C1: for a stored turn t of an acyclic store (a forest built by
\* appending to stored turns), the result is the path in root-to-target
\* order: the first row is the root, every later row has the row before it
\* as its parent, the last row is t.
C1_RootToTargetOrder ==
    (/\ history.asked
     /\ TargetKnown
     /\ BuiltByAppending(history.messages)
     /\ ~CycleReachable(history.messages, Target)
     /\ EndsAtRoot(history.messages, Target))
    => /\ history.result.outcome = "rows"
       /\ LET rows == history.result.rows
          IN  /\ Len(rows) >= 1
              /\ rows[1].previousMessageId = NULL
              /\ \A i \in 2..Len(rows) : rows[i].previousMessageId = rows[i - 1].id
              /\ rows[Len(rows)].id = Target

\* C2: for a stored turn t with no cycle among its ancestors, the result
\* holds t and every turn reachable from t over previousMessageId, each
\* once, and no other turn; the walk stops at the turn whose parent link
\* names no turn; and the createdAt values of the turns change nothing.
C2_AncestryContent ==
    (/\ history.asked
     /\ TargetKnown
     /\ ~CycleReachable(history.messages, Target))
    => /\ history.result.outcome = "rows"
       /\ LET rows == history.result.rows
              retimed == {[m EXCEPT !.createdAt = 0, !.updatedAt = 0] :
                             m \in history.messages}
              again == MessageHistory(retimed, history.messageId)
          IN  /\ \A i \in 1..Len(rows) : rows[i] \in history.messages
              /\ {rows[i].id : i \in 1..Len(rows)} = Reachable(history.messages, {Target})
              /\ Len(rows) = Cardinality(Reachable(history.messages, {Target}))
              /\ \A i \in 1..Len(rows) :
                    (rows[i].previousMessageId \notin Ids(history.messages)) <=> (i = Len(rows))
              /\ again.outcome = "rows"
              /\ IdsInOrder(again.rows) = IdsInOrder(rows)

\* C2's case: a history of two turns or more was reconstructed in which a
\* turn carries an earlier createdAt than its parent.
C2_Witness ==
    /\ history.asked
    /\ TargetKnown
    /\ ~CycleReachable(history.messages, Target)
    /\ history.result.outcome = "rows"
    /\ Len(history.result.rows) >= 2
    /\ history.result.rows[1].createdAt < history.result.rows[2].createdAt
    /\ history.result.rows[2].previousMessageId = NULL

\* C3: when a cycle is reachable from the turn asked for, the call ends
\* and fails with CorruptChainError (stated for the connections that
\* enforce foreign keys, on which a turn can still be its own parent).
C3_CycleFails ==
    (/\ history.asked
     /\ foreignKeys
     /\ TargetKnown
     /\ CycleReachable(history.messages, Target))
    => history.result.outcome = "CorruptChainError"

\* C4: for an id that names no stored turn the call fails with
\* NotFoundError, and returns no value.
C4_UnknownTurnFails ==
    (history.asked /\ ~TargetKnown) => history.result.outcome = "NotFoundError"

-----------------------------------------------------------------------------
(* Claims about storeChat, under SpecChat.                                 *)

Roots == {m \in ChatMessage : m.previousMessageId = NULL}

\* C5: every stored turn with a parent link has the sessionId of the turn
\* the link names, and a call with a prior turn creates no session.
C5_ChainStaysInSession ==
    /\ \A m \in ChatMessage :
          m.previousMessageId \in Ids(ChatMessage)
          => m.sessionId = RowOf(ChatMessage, m.previousMessageId).sessionId
    /\ \A c \in Callers :
          (ret[c].outcome # "none" /\ ret[c].currentMessage # Undefined)
          => ret[c].createdSession = NULL

\* C6: every storeChat call without a prior turn, however the calls
\* interleave, creates one new ChatSession row and stores one new root turn
\* in that session; the sessions of such calls are pairwise distinct.
C6_OneSessionPerRootCall ==
    /\ Cardinality(ChatSession) = calls.sessionCalls
    /\ Cardinality(Roots) = calls.rootCalls
    /\ \A m1 \in Roots, m2 \in Roots : m1 # m2 => m1.sessionId # m2.sessionId
    /\ \A m \in Roots : m.sessionId \in Ids(ChatSession)
    /\ \A c \in Callers :
          (frame[c].pc = "insert" /\ frame[c].currentMessage = Undefined)
          => /\ frame[c].createdSession \in Ids(ChatSession)
             /\ \A m \in Roots : m.sessionId # frame[c].createdSession
             /\ \A d \in Callers \ {c} :
                   frame[d].pc = "insert" => frame[d].createdSession # frame[c].createdSession
    /\ \A c \in Callers :
          (ret[c].outcome # "none" /\ ret[c].currentMessage = Undefined)
          => /\ ret[c].outcome = "value"
             /\ ret[c].createdSession \in Ids(ChatSession)
             /\ RowOf(ChatMessage, ret[c].rowId).previousMessageId = NULL
             /\ RowOf(ChatMessage, ret[c].rowId).sessionId = ret[c].createdSession

\* C6's case: two calls without a prior turn ran interleaved (the caller
\* that inserted its session second inserted its turn first), and both
\* have returned.
C6_Witness ==
    /\ ret["c1"].outcome = "value" /\ ret["c1"].currentMessage = Undefined
    /\ ret["c2"].outcome = "value" /\ ret["c2"].currentMessage = Undefined
    /\ ret["c1"].createdSession = 2 /\ ret["c1"].rowId = 1
    /\ ret["c2"].createdSession = 1 /\ ret["c2"].rowId = 2

\* C7: a storeChat call whose prior turn names a turn or a session that
\* storage lacks fails with the referential error, and inserts no turn and
\* no session (stated for the connections that enforce foreign keys).
C7_StalePriorFails ==
    \A c \in Callers :
        (foreignKeys /\ ret[c].outcome # "none" /\ ret[c].stale)
        => /\ ret[c].outcome = "error"
           /\ ret[c].error = "SQLITE_CONSTRAINT_FOREIGNKEY"
           /\ ret[c].createdSession = NULL

\* C8: the value storeChat returns is the row it stored: the new id, the
\* stored sessionId and previousMessageId, and the stored createdAt and
\* updatedAt.
C8_ReturnsPersistedRow ==
    \A c \in Callers :
        ret[c].outcome = "value"
        => LET row == RowOf(ChatMessage, ret[c].rowId)
               value == ret[c].value
           IN  /\ value.id = NumberToString(row.id)
               /\ value.sessionId = NumberToString(row.sessionId)
               /\ value.previousMessageId =
                      (IF row.previousMessageId = NULL THEN Undefined
                       ELSE NumberToString(row.previousMessageId))
               /\ value.createdAt = Num(row.createdAt)
               /\ value.updatedAt = Num(row.updatedAt)

-----------------------------------------------------------------------------
(* Claims about the agent state store, under SpecAgent.                    *)

C10_RetrieveByAgentId ==
    (/\ agentRet.outcome = "value"
     /\ agentRet.kind = "retrieve"
     /\ \E e \in stored : e.checkpoint.agentId = agentRet.arg)
    => /\ agentRet.value # JsNull
       /\ \E e \in stored :
             /\ e.checkpoint.agentId = agentRet.arg
             /\ e.id = agentRet.value.id
             /\ agentRet.value.state = Parse(Stringify(e.checkpoint.state))

\* C11: the AgentState table holds at most one row per (agentId, name),
\* and for every key that row carries the state of the latest
\* storeCheckpoint for the key.
C11_InsertOrReplace ==
    /\ \A r1 \in AgentState, r2 \in AgentState :
          (r1.agentId = r2.agentId /\ r1.name = r2.name) => r1 = r2
    /\ \A e \in stored :
          (\A f \in stored :
              (f.checkpoint.agentId = e.checkpoint.agentId
               /\ f.checkpoint.name = e.checkpoint.name)
              => ParseInt(f.id) <= ParseInt(e.id))
          => \A r \in AgentState :
                (r.agentId = e.checkpoint.agentId.s /\ r.name = e.checkpoint.name.s)
                => r.state = Stringify(e.checkpoint.state)

-----------------------------------------------------------------------------
(* Claims about retryOnBusy, under SpecAgent.                              *)

\* The sum 1 + 2 + ... + n.
RECURSIVE SumTo(_)
SumTo(n) == IF n <= 0 THEN 0 ELSE n + SumTo(n - 1)

\* The sum of a sequence of numbers.
RECURSIVE SumOf(_)
SumOf(q) == IF q = <<>> THEN 0 ELSE Head(q) + SumOf(Tail(q))

\* Whether every run of the operation so far met a locked file.
AllBusy(faults) == \A k \in 1..Len(faults) : faults[k] = "SQLITE_BUSY"

Ended == agentRet.outcome # "none"

\* C12: a call whose operation meets SQLITE_BUSY on every run never runs
\* it more than maxRetries times, and ends having run it exactly maxRetries
\* times with the SQLITE_BUSY error the operation raised.
C12_BusyExhaustion ==
    /\ op.pc = "loop" => Len(op.faults) < maxRetries \/ maxRetries = 0
    /\ Ended => Len(agentRet.faults) <= maxRetries
    /\ (Ended /\ agentRet.faults # <<>> /\ AllBusy(agentRet.faults))
       => /\ agentRet.outcome = "error"
          /\ agentRet.value = "SQLITE_BUSY"
          /\ agentRet.attempts = maxRetries

\* C12's case: under the default configuration a call ended with
\* SQLITE_BUSY after three runs that all met a locked file.
C12_Witness ==
    /\ Ended
    /\ maxRetries = DefaultMaxRetries
    /\ agentRet.faults = <<"SQLITE_BUSY", "SQLITE_BUSY", "SQLITE_BUSY">>
    /\ agentRet.outcome = "error"

OtherError(fault) == fault \notin {"none", "SQLITE_BUSY"}

\* C14: a run that meets an error other than SQLITE_BUSY is the last run
\* of its call; no sleep follows it; and the call ends with that error.  A
\* call whose first run meets such an error has run the operation once and
\* has not slept.
C14_OtherErrorPropagates ==
    /\ op.pc = "loop" => \A k \in 1..Len(op.faults) : ~OtherError(op.faults[k])
    /\ Ended
       => \A k \in 1..Len(agentRet.faults) :
             OtherError(agentRet.faults[k])
             => /\ k = Len(agentRet.faults)
                /\ agentRet.outcome = "error"
                /\ agentRet.value = agentRet.faults[k]
                /\ Len(agentRet.sleeps) = k - 1
                /\ k = 1 => agentRet.attempts = 1 /\ agentRet.slept = 0

\* C14's case: the first run of a storeCheckpoint met an I/O error where
\* two more runs were allowed, and the call ended at once with that error.
C14_Witness ==
    /\ Ended
    /\ maxRetries = DefaultMaxRetries
    /\ agentRet.kind = "store"
    /\ agentRet.faults = <<"SQLITE_IOERR">>
    /\ agentRet.value = "SQLITE_IOERR"

\* C15: a call whose operation met SQLITE_BUSY on its first k - 1 runs, k
\* at most maxRetries, is still in progress or has ended at run k; if run k
\* met no error the call returned the result of that run, after exactly k
\* runs: storeCheckpoint the id of the one row it added to the table the
\* call began on, retrieveCheckpoint what the query gives on that table.
C15_BusyThenSuccess ==
    /\ (Ended /\ agentRet.outcome = "error" /\ agentRet.value = "SQLITE_BUSY")
       => agentRet.attempts >= maxRetries
    /\ (Ended /\ agentRet.faults # <<>>
              /\ agentRet.faults[Len(agentRet.faults)] = "none"
              /\ AllBusy(SubSeq(agentRet.faults, 1, Len(agentRet.faults) - 1)))
       => /\ agentRet.outcome = "value"
          /\ agentRet.attempts = Len(agentRet.faults)
          /\ agentRet.attempts <= maxRetries
          /\ agentRet.kind = "store"
             => /\ AgentState = agentRet.rows
                        \cup {NewAgentStateRow(agentRet.rows, agentRet.arg)}
                /\ agentRet.value
                       = NumberToString(NewAgentStateRow(agentRet.rows, agentRet.arg).id)
          /\ agentRet.kind = "retrieve"
             => /\ AgentState = agentRet.rows
                /\ agentRet.value = RetrieveResult(agentRet.rows, agentRet.arg)

\* C15's case: a storeCheckpoint under the default configuration met
\* SQLITE_BUSY twice and stored its row on the third run.
C15_Witness ==
    /\ Ended
    /\ agentRet.kind = "store"
    /\ agentRet.faults = <<"SQLITE_BUSY", "SQLITE_BUSY", "none">>
    /\ agentRet.outcome = "value"
    /\ Cardinality(AgentState) = Cardinality(agentRet.rows) + 1

\* C16: under SpecBusy, an SQLITE_BUSY error reaches the caller of
\* storeChat only after the statement that met it was run maxRetries times.
C16_RetryEverywhere ==
    \A c \in Callers :
        (ret[c].outcome = "error" /\ ret[c].error = "SQLITE_BUSY")
        => ret[c].runs = maxRetries

-----------------------------------------------------------------------------
(* Claims about SQLiteCLIHistoryStorage, under SpecRing.                   *)

\* Whether a command is blank: it holds nothing but spaces.
IsBlank(command) == \A i \in 1..Len(command) : command[i] = " "

\* Whether a command is an entry of the configured blacklist.
Listed(command) == \E i \in 1..Len(config.blacklist) : config.blacklist[i] = command

\* Whether a command is the entry currently last in a list.
IsLast(list, command) == list # <<>> /\ list[Len(list)] = command

\* The newest n entries of a list, oldest first; all of them if fewer.
Newest(list, n) ==
    LET k == IF Len(list) <= n THEN Len(list) ELSE n
    IN  [i \in 1..k |-> list[Len(list) - k + i]]

\* C17: in every state after an add call has returned, getAll() has at
\* most limit entries and is the newest limit of the commands appended, in
\* the order they were appended.
C17_EvictionBound ==
    \A r \in Rings :
        (ringRet.op = "add" /\ ringRet.ring = r)
        => /\ Len(getAll(r)) <= config.limit
           /\ getAll(r) = Newest(added, config.limit)

\* C18: an add of a command that is blank, or on the blacklist, or equal
\* to the entry currently last, changes neither the cached list, nor the
\* cursor, nor the rows of CommandHistory.
C18_NoOpAdd ==
    [][\A r \in Rings :
          (/\ ringRet'.op = "add"
           /\ ringRet'.ring = r
           /\ \/ IsBlank(ringRet'.command)
              \/ Listed(ringRet'.command)
              \/ IsLast(ring[r].history, ringRet'.command))
          => /\ ring' = ring
             /\ CommandHistory' = CommandHistory]_vars

\* C18's case: with the cursor moved off the end, the entry last in the
\* list was added again, and the call ran no statement.
C18_Witness ==
    \E r \in Rings :
        /\ ringRet.op = "add"
        /\ ringRet.ring = r
        /\ ringRet.runs = 0
        /\ IsLast(ring[r].history, ringRet.command)
        /\ ring[r].historyIndex < Len(ring[r].history)
        /\ Cardinality(CommandHistory) = Len(ring[r].history)

C20_CursorAtEnd ==
    \A r \in Rings :
        (ringRet.op = "add" /\ ringRet.ring = r /\ ringRet.logged = "none")
        => ring[r].historyIndex = Len(ring[r].history)

-----------------------------------------------------------------------------
(* Claims about moving through the history, under SpecNavigate.            *)

\* C21: a getPrevious call with the cursor above 0 moves the cursor down by
\* one and returns the entry at the new cursor; with the cursor at 0 it
\* returns absence and leaves the cursor where it is.  The list is left
\* as it is.
C21_GetPrevious ==
    [][\A r \in Rings :
          (ringRet'.op = "getPrevious" /\ ringRet'.ring = r)
          => /\ ring'[r].history = ring[r].history
             /\ IF ring[r].historyIndex > 0
                THEN /\ ring'[r].historyIndex = ring[r].historyIndex - 1
                     /\ ringRet'.value = Found(ring[r].history[ring'[r].historyIndex + 1])
                ELSE /\ ring'[r].historyIndex = 0
                     /\ ringRet'.value = Absent]_vars

\* C21's case: from the end of a list of two entries, getPrevious has been
\* called until it returned absence, with the cursor at 0.
C21_Witness ==
    \E r \in Rings :
        /\ ringRet.op = "getPrevious"
        /\ ringRet.ring = r
        /\ ringRet.value = Absent
        /\ ring[r].historyIndex = 0
        /\ Len(ring[r].history) = 2

\* C22: a getNext(line) call with the cursor below length - 1 moves the
\* cursor up by one and returns the entry at the new cursor; with the
\* cursor at length - 1 it moves the cursor to length and returns line, the
\* value the caller passed in that call; with the cursor at length or
\* above it returns absence and leaves the cursor where it is.
C22_GetNext ==
    [][\A r \in Rings :
          (ringRet'.op = "getNext" /\ ringRet'.ring = r)
          => LET list == ring[r].history
                 cursor == ring[r].historyIndex
             IN  /\ ring'[r].history = list
                 /\ IF cursor < Len(list) - 1
                    THEN /\ ring'[r].historyIndex = cursor + 1
                         /\ ringRet'.value = Found(list[cursor + 2])
                    ELSE IF cursor = Len(list) - 1
                    THEN /\ ring'[r].historyIndex = Len(list)
                         /\ ringRet'.value = Found(ringRet'.command)
                    ELSE /\ ring'[r].historyIndex = cursor
                         /\ ringRet'.value = Absent]_vars

\* The rows of a table, by ascending id: in the order they were inserted.
RECURSIVE ByIdAsc(_)
ByIdAsc(rows) ==
    IF rows = {} THEN <<>>
    ELSE LET first == CHOOSE x \in rows : \A o \in rows : x.id <= o.id
         IN  <<first>> \o ByIdAsc(rows \ {first})

\* The commands of a sequence of CommandHistory rows.
CommandsOf(rows) == [i \in 1..Len(rows) |-> rows[i].command]

\* C23: after a load whose SELECT met no error, the list holds the
\* commands of the min(limit, n) rows inserted last, in the order they were
\* inserted, and the cursor is at the length of the list.
C23_LoadRestores ==
    \A r \in Rings :
        (ringRet.op = "load" /\ ringRet.ring = r /\ ringRet.logged = "none")
        => /\ getAll(r) = Newest(CommandsOf(ByIdAsc(CommandHistory)), config.limit)
           /\ ring[r].historyIndex = Len(getAll(r))

C25_ErrorsPropagate ==
    ringRet.op \in {"add", "clear", "load"} => ringRet.logged # "SQLITE_IOERR"

-----------------------------------------------------------------------------
(* Claims about the checkpoints, under SpecCheckpoint.                     *)

\* C26: retrieveCheckpoint(k) gives the checkpoint inserted (k+1)-th from
\* the last (rows get the ids 1, 2, ... as they are inserted and none is
\* deleted, so that is the row of id n - k among n rows), and gives absence
\* when k is at least n, whatever the createdAt of the rows.
C26_CheckpointByOffset ==
    checkpointRet.op = "retrieveCheckpoint"
    => LET k == checkpointRet.idx
           n == Cardinality(Checkpoint)
       IN  /\ checkpointRet.outcome = "value"
           /\ IF k >= n THEN ~checkpointRet.value.found
              ELSE /\ checkpointRet.value.found
                   /\ checkpointRet.value.row.id = n - k

\* C27: every stored checkpoint names a turn of the ChatMessage table (no
\* turn is ever deleted, so a turn that existed at the creation still
\* exists), and a createCheckpoint whose currentMessage is absent or names
\* no turn ends in an error.
C27_CheckpointNamesTurn ==
    /\ \A cp \in Checkpoint : \E cm \in ChatMessage : cm.id = cp.messageId
    /\ (/\ checkpointRet.op = "createCheckpoint"
        /\ \/ ~Truthy(checkpointRet.currentMessage)
           \/ BindInteger(Get(checkpointRet.currentMessage, "id")) \notin Ids(ChatMessage))
       => checkpointRet.outcome = "error"

-----------------------------------------------------------------------------
(* Claims about the queries on the turns, under SpecQueries.               *)

\* The turns of the session a getRecentMessages call names, and the limit
\* in force for the call.
TurnsAsked(q) == {cm \in ChatMessage : cm.sessionId = BindInteger(q.sessionId)}
LimitAsked(q, default) == IF q.limit = Undefined THEN default ELSE q.limit.n
Least(a, b) == IF a <= b THEN a ELSE b

C29_MostRecentTurns ==
    [][(query'.op = "getRecentMessages" /\ UNCHANGED notQuery)
       => LET mine == TurnsAsked(query')
              n == Cardinality(mine)
              k == Least(LimitAsked(query', DefaultRecentLimit), n)
              res == query'.result
          IN  /\ Len(res) = k
              /\ \A i \in 1..Len(res) :
                    /\ res[i] \in mine
                    /\ Cardinality({cm \in mine : cm.id < res[i].id}) = n - k + i - 1]_vars

\* C30: searchMessages(keyword, limit) returns only turns whose request or
\* response holds the keyword, whatever the case of the letters, of any
\* session, no turn before a newer one, and at most limit of them, limit
\* being the caller's value, or 20 when the caller gives none.
C30_SearchLimit ==
    [][(query'.op = "searchMessages" /\ UNCHANGED notQuery)
       => LET res == query'.result
          IN  /\ \A i \in 1..Len(res) :
                    /\ res[i] \in ChatMessage
                    /\ \/ Like(TextOf(res[i].request), query'.keyword)
                       \/ Like(TextOf(res[i].response), query'.keyword)
              /\ \A i, j \in 1..Len(res) : i < j => res[i].createdAt >= res[j].createdAt
              /\ Len(res) <= LimitAsked(query', SearchLimit)]_vars

\* C31: a searchMessages call whose keyword is empty or holds nothing but
\* spaces returns the empty sequence (the call leaves the tables as they
\* are and ends without an error in every case).
C31_BlankKeyword ==
    [][(/\ query'.op = "searchMessages"
        /\ UNCHANGED notQuery
        /\ \A i \in 1..Len(query'.keyword) : query'.keyword[i] = " ")
       => query'.result = <<>>]_vars

\* The listings that give the newest rows first, and those that give the
\* oldest first.
NewestFirst == {"listSessions", "searchMessages"}
OldestFirst == {"getThreadTree", "getRecentMessages"}

\* C32: in every listing two rows of one createdAt stand in the order of
\* their insertion, as the listing runs: the row inserted later (of the
\* larger id) first in a listing that gives the newest first, and second in
\* one that gives the oldest first.
C32_TiesByInsertion ==
    [][(query'.op \in NewestFirst \cup OldestFirst /\ UNCHANGED notQuery)
       => LET res == query'.result
          IN  \A i, j \in 1..Len(res) :
                 (i < j /\ res[i].createdAt = res[j].createdAt)
                 => IF query'.op \in NewestFirst THEN res[i].id > res[j].id
                    ELSE res[i].id < res[j].id]_vars

-----------------------------------------------------------------------------
(* Claims about reading a turn back, under SpecMessages.                   *)

\* C33: retrieveMessageById of the id the last storeChat returned gives a
\* message of the same id, sessionId and previousMessageId, whose request
\* is the request the storeChat was given and whose response is the
\* response it was given, or null when it was given none; and
\* retrieveMessageById of an id that no turn has ends in an error.  (seen
\* tells that no turn was stored since the retrieveMessageById.)
C33_StoreThenRetrieve ==
    (query.op = "retrieveMessageById" /\ query.seen = Cardinality(ChatMessage))
    => /\ (ret["c1"].outcome = "value" /\ query.id = ret["c1"].value.id)
          => /\ query.outcome = "value"
             /\ query.value.id = ret["c1"].value.id
             /\ query.value.sessionId = ret["c1"].value.sessionId
             /\ query.value.previousMessageId = ret["c1"].value.previousMessageId
             /\ query.value.request = ret["c1"].request
             /\ query.value.response =
                   IF ret["c1"].response = Undefined THEN JsNull ELSE ret["c1"].response
       /\ (\A cm \in ChatMessage : NumberToString(cm.id) # query.id)
          => query.outcome = "error"

\* C33's case: a turn that continues another was stored without a response
\* and then read back by the id storeChat returned.
C33_Witness ==
    /\ query.op = "retrieveMessageById"
    /\ query.seen = Cardinality(ChatMessage)
    /\ ret["c1"].outcome = "value"
    /\ query.id = ret["c1"].value.id
    /\ ret["c1"].response = Undefined
    /\ query.outcome = "value"
    /\ query.value.response = JsNull
    /\ query.value.previousMessageId = NumberToString(1)
    /\ query.value.id = NumberToString(2)

-----------------------------------------------------------------------------
(* Claims about the cursor and the table under storage errors, under       *)
(* SpecCursor.                                                             *)

\* C34: in every state the cursor of an instance is at least 0 and at
\* most the length of its list, whatever calls ran and whichever of their
\* statements met an error.
C34_CursorInRange ==
    \A r \in Rings :
        /\ 0 <= ring[r].historyIndex
        /\ ring[r].historyIndex <= Len(ring[r].history)

\* C34's case: an add whose trimming DELETE met an error left a list one
\* longer than the limit, with the cursor below its end.
C34_Witness ==
    \E r \in Rings :
        /\ ringRet.op = "add"
        /\ ringRet.ring = r
        /\ ringRet.logged # "none"
        /\ Len(ring[r].history) = Limit(config) + 1
        /\ ring[r].historyIndex < Len(ring[r].history)

-----------------------------------------------------------------------------
(* Claims about the table and the list together, under SpecRing.           *)

\* C35: in every state the list of the instance, which loaded the table
\* when it was empty, holds the commands of the CommandHistory rows in the
\* order the rows were inserted, also after rows were evicted and when
\* rows carry one timestamp.
C35_NoEvictionDrift ==
    \A r \in Rings : getAll(r) = CommandsOf(ByIdAsc(CommandHistory))

-----------------------------------------------------------------------------
(* Claims about the stored links and sessions, under SpecChat.             *)

\* C36: in every state no stored turn is its own ancestor over the
\* previousMessageId links, and none names itself as its parent.
C36_LinksFormForest ==
    \A cm \in ChatMessage :
        /\ cm.previousMessageId # cm.id
        /\ ~OnCycle(ChatMessage, cm.id)

-----------------------------------------------------------------------------
(* Claims about the retry loop and the returned records, under SpecAgent.  *)

\* C37: under every configuration a call that ended has run its operation
\* at least once, and an error it ended with is the error its last run
\* raised.
C37_RunsAtLeastOnce ==
    Ended
    => /\ Len(agentRet.faults) >= 1
       /\ agentRet.outcome = "error"
          => agentRet.value = agentRet.faults[Len(agentRet.faults)]

\* C39: the record retrieveCheckpoint returns for the id storeCheckpoint
\* gave carries that id and the agentId, name and createdAt of the
\* checkpoint that was stored.
C39_RecordCarriesRow ==
    (agentRet.outcome = "value" /\ agentRet.kind = "retrieve")
    => \A e \in stored :
          e.id = agentRet.arg
          => /\ agentRet.value # JsNull
             /\ agentRet.value.id = e.id
             /\ agentRet.value.agentId = e.checkpoint.agentId
             /\ agentRet.value.name = e.checkpoint.name
             /\ agentRet.value.createdAt = Num(e.checkpoint.createdAt)

-----------------------------------------------------------------------------
(* Claims about storeChat on a file that may be locked, under SpecBusy.    *)

\* C38: a storeChat call without a prior turn that ended in an error has
\* left no ChatSession row of its own, and, when no call is under way,
\* every stored session has a turn.
C38_AllOrNothing ==
    /\ \A c \in Callers :
          (ret[c].outcome = "error" /\ ret[c].currentMessage = Undefined)
          => ret[c].createdSession \notin Ids(ChatSession)
    /\ (\A c \in Callers : frame[c].pc = "idle")
       => \A session \in ChatSession : \E cm \in ChatMessage : cm.sessionId = session.id

-----------------------------------------------------------------------------
(* Claims about instances that share the table, under SpecShared.          *)

\* C40: in every state after an add call has returned, the CommandHistory
\* table holds at most limit rows, also when the instance that added was
\* constructed over a table that held rows and never loaded them.
C40_DurableBound ==
    ringRet.op = "add" => Cardinality(CommandHistory) <= Limit(config)

====
